---------------------------- MODULE Spec2Model ----------------------------
(***************************************************************************)
(* RomFS reader (source/romfs.h): one RomFileSystemContext, the heap that  *)
(* holds its two table buffers, and the operations declared by the header. *)
(*                                                                         *)
(* Numbers are C unsigned integers kept at their width.  A value is a      *)
(* little-endian sequence of 16-bit limbs: a u32 is two limbs, a u64 four. *)
(***************************************************************************)
EXTENDS Integers, Sequences, FiniteSets, TLC

VARIABLES ctx, heap, phase, last

vars == <<ctx, heap, phase, last>>

(***************************************************************************)
(* Fixed-width unsigned arithmetic.                                        *)
(***************************************************************************)
Base == 256 * 256

TopLimb == Base - 1

\* Limbs are 16 bits wide.
U32Limbs == 32 \div 16

U64Limbs == 64 \div 16

\* The one element of a singleton: The({ e : x \in {v} }) is e with x bound
\* to the value of v.
The(S) == CHOOSE x \in S : TRUE

\* The small number n as an unsigned value of w limbs.
Small(n, w) == [i \in 1..w |-> IF i = 1 THEN n ELSE 0]

\* A u32 from its high and low halves, a u64 from a high u32 part and low limbs.
U32(hi, lo) == <<lo, hi>>

U64(l3, l2, l1, l0) == <<l0, l1, l2, l3>>

\* Integer conversion to a wider unsigned type.
ZeroExtend(x, w) == The({ [i \in 1..w |-> IF i <= Len(v) THEN v[i] ELSE 0] : v \in {x} })

RECURSIVE CarryInto(_, _, _)
CarryInto(a, b, i) ==
    IF i = 1 THEN 0 ELSE (a[i - 1] + b[i - 1] + CarryInto(a, b, i - 1)) \div Base

\* The mathematical sum of two values of the same width, one limb wider.
AddExact(a, b) ==
    The({ [i \in 1..(Len(x) + 1) |->
              IF i <= Len(x) THEN (x[i] + y[i] + CarryInto(x, y, i)) % Base
              ELSE CarryInto(x, y, i)] : x \in {a}, y \in {b} })

\* C's unsigned addition at the operands' width: the sum modulo 2^(16 * Len).
AddWrap(a, b) == The({ SubSeq(s, 1, Len(s) - 1) : s \in {AddExact(a, b)} })

\* a < b, for values of any widths.
Limb(x, i) == IF i <= Len(x) THEN x[i] ELSE 0

Less(a, b) ==
    \E x \in {a}, y \in {b} :
        \E i \in 1..(Len(x) + Len(y)) :
            /\ Limb(x, i) < Limb(y, i)
            /\ \A j \in (i + 1)..(Len(x) + Len(y)) : Limb(x, j) = Limb(y, j)

Greater(a, b) == Less(b, a)

LessEq(a, b) == ~Less(b, a)

IsZero(a) == \A x \in {a} : \A i \in 1..Len(x) : x[i] = 0

\* Small numbers as u32 and as u64.
N32(n) == Small(n, U32Limbs)

N64(n) == Small(n, U64Limbs)

ZERO32 == N32(0)

ZERO64 == N64(0)

(***************************************************************************)
(* Constants and record layouts of romfs.h.                                *)
(***************************************************************************)
ROMFS_OLD_HEADER_SIZE == 40

ROMFS_HEADER_SIZE == 80

ROMFS_VOID_ENTRY == U32(TopLimb, TopLimb)

\* sizeof(RomFileSystemDirectoryEntry): six u32 fields, the name[] tail adds 0.
SizeofDirectoryEntry == 24

\* sizeof(RomFileSystemFileEntry): 2 * u32, 2 * u64, 2 * u32.
SizeofFileEntry == 32

\* The header union holds ROMFS_HEADER_SIZE bytes: this many 16-bit limbs.
HeaderLimbs == ROMFS_HEADER_SIZE \div 2

\* A faulty overlay that steps through the legacy fields eight bytes at a time.
OldField_Stride8(h, k) == SubSeq(h, 4 * k + 1, 4 * k + 2)

\* Field k (from 0) of RomFileSystemInformationOld: ten consecutive u32.
OldField(h, k) == SubSeq(h, 2 * k + 1, 2 * k + 2)

\* Field k (from 0) of RomFileSystemInformation: ten consecutive u64, which
\* overlay the same bytes (the union).
CurField(h, k) == SubSeq(h, 4 * k + 1, 4 * k + 4)

(***************************************************************************)
(* Sample archives: what the section reader delivers.  An archive is its   *)
(* region (offset, size), the 0x50 header bytes, and the entries found at  *)
(* their byte offsets in the directory and file entry tables.              *)
(***************************************************************************)
VOID == ROMFS_VOID_ENTRY

\* RomFileSystemDirectoryEntry, fixed part.
DirEntry(parent, next, dir, file, nameLen) ==
    [parent_offset |-> parent, next_offset |-> next, directory_offset |-> dir,
     file_offset |-> file, bucket_offset |-> VOID, name_length |-> N32(nameLen)]

\* RomFileSystemFileEntry, fixed part.
FileEntry(parent, next, dataOff, dataSize, nameLen) ==
    [parent_offset |-> parent, next_offset |-> next, offset |-> dataOff,
     size |-> dataSize, bucket_offset |-> VOID, name_length |-> N32(nameLen)]

\* Flatten a sequence of equally wide fields and pad with zero bytes to the
\* size of the header union.
RECURSIVE Flatten(_)
Flatten(fields) ==
    IF fields = <<>> THEN <<>> ELSE Head(fields) \o Flatten(Tail(fields))

PadHeader(limbs) == [i \in 1..HeaderLimbs |-> IF i <= Len(limbs) THEN limbs[i] ELSE 0]

\* A header written in the RomFileSystemInformationOld layout (u32 fields).
HeaderOld(hsize, dirOff, dirSize, fileOff, fileSize, body) ==
    PadHeader(Flatten(<<hsize, ZERO32, ZERO32, dirOff, dirSize,
                        ZERO32, ZERO32, fileOff, fileSize, body>>))

\* A header written in the RomFileSystemInformation layout (u64 fields).
HeaderCur(hsize, dirOff, dirSize, fileOff, fileSize, body) ==
    PadHeader(Flatten(<<hsize, ZERO64, ZERO64, dirOff, dirSize,
                        ZERO64, ZERO64, fileOff, fileSize, body>>))

\* root(0) { f1(0), f4(108), A(24) { f2(36), C(80) { f3(72) } }, B(52) { } }
TreeDirs ==
    (<<0, 0>>  :> DirEntry(ZERO32, VOID, N32(24), N32(0), 0)) @@
    (<<24, 0>> :> DirEntry(ZERO32, N32(52), N32(80), N32(36), 1)) @@
    (<<52, 0>> :> DirEntry(ZERO32, VOID, VOID, VOID, 1)) @@
    (<<80, 0>> :> DirEntry(N32(24), VOID, VOID, N32(72), 1))

TreeFiles ==
    (<<0, 0>>   :> FileEntry(ZERO32, N32(108), N64(0), N64(5), 2)) @@
    (<<36, 0>>  :> FileEntry(N32(24), VOID, N64(5), N64(7), 2)) @@
    (<<72, 0>>  :> FileEntry(N32(80), VOID, N64(12), N64(11), 2)) @@
    (<<108, 0>> :> FileEntry(ZERO32, VOID, N64(23), N64(13), 2))

\* The same tree with B's sibling link pointing back at A: a cyclic chain.
CyclicDirs ==
    [TreeDirs EXCEPT ![<<52, 0>>] = DirEntry(ZERO32, N32(24), VOID, VOID, 1)]

\* A root directory alone, without files or subdirectories.
RootOnlyDirs == (<<0, 0>> :> DirEntry(ZERO32, VOID, VOID, VOID, 0))

NoFiles == [o \in {} |-> 0]

\* The tree's tables end at 80 + 28 and at 108 + 36 bytes.
TreeDirSize == N64(80 + 28)

TreeFileSize == N64(108 + 36)

Archive(hdr, dirs, files, size) ==
    [header |-> hdr, dirs |-> dirs, files |-> files,
     offset |-> N64(512), size |-> size]

Archives ==
    << \* 1: current layout, well-formed tree
       Archive(HeaderCur(N64(ROMFS_HEADER_SIZE), N64(256), TreeDirSize,
                         N64(512), TreeFileSize, N64(1024)),
               TreeDirs, TreeFiles, N64(4096)),
       \* 2: legacy layout, the same tree
       Archive(HeaderOld(N32(ROMFS_OLD_HEADER_SIZE), N32(256), N32(80 + 28),
                         N32(512), N32(108 + 36), N32(1024)),
               TreeDirs, TreeFiles, N64(4096)),
       \* 3: directory table cut short: C's record (80..104) does not fit
       Archive(HeaderCur(N64(ROMFS_HEADER_SIZE), N64(256), N64(100),
                         N64(512), TreeFileSize, N64(1024)),
               TreeDirs, TreeFiles, N64(4096)),
       \* 4: file table cut short: f4's record (108..140) does not fit
       Archive(HeaderCur(N64(ROMFS_HEADER_SIZE), N64(256), TreeDirSize,
                         N64(512), N64(130), N64(1024)),
               TreeDirs, TreeFiles, N64(4096)),
       \* 5: cyclic sibling chain
       Archive(HeaderCur(N64(ROMFS_HEADER_SIZE), N64(256), TreeDirSize,
                         N64(512), TreeFileSize, N64(1024)),
               CyclicDirs, TreeFiles, N64(4096)),
       \* 6: no files at all (file table of size zero)
       Archive(HeaderCur(N64(ROMFS_HEADER_SIZE), N64(256), N64(SizeofDirectoryEntry),
                         N64(512), ZERO64, N64(1024)),
               RootOnlyDirs, NoFiles, N64(4096)),
       \* 7: directory table of size zero
       Archive(HeaderCur(N64(ROMFS_HEADER_SIZE), N64(256), ZERO64,
                         N64(512), TreeFileSize, N64(1024)),
               RootOnlyDirs, TreeFiles, N64(4096)),
       \* 8: tables of 2^32 + 23 and 2^32 + 31 bytes
       Archive(HeaderCur(N64(ROMFS_HEADER_SIZE), N64(256), U64(0, 1, 0, 23),
                         U64(0, 2, 0, 0), U64(0, 1, 0, 31), U64(0, 4, 0, 0)),
               RootOnlyDirs, TreeFiles, U64(0, 8, 0, 0)),
       \* 9: tables of 2^32 + 22 and 2^32 + 30 bytes
       Archive(HeaderCur(N64(ROMFS_HEADER_SIZE), N64(256), U64(0, 1, 0, 22),
                         U64(0, 2, 0, 0), U64(0, 1, 0, 30), U64(0, 4, 0, 0)),
               RootOnlyDirs, TreeFiles, U64(0, 8, 0, 0)),
       \* 10: size field 0x30, neither layout
       Archive(HeaderCur(N64(48), N64(256), TreeDirSize,
                         N64(512), TreeFileSize, N64(1024)),
               TreeDirs, TreeFiles, N64(4096)),
       \* 11: 64-bit size field 2^32 + 0x50: its low word alone is 0x50
       Archive(HeaderCur(U64(0, 1, 0, ROMFS_HEADER_SIZE), N64(256), TreeDirSize,
                         N64(512), TreeFileSize, N64(1024)),
               TreeDirs, TreeFiles, N64(4096)),
       \* 12: legacy fields behind a size field of 0x50
       Archive(HeaderOld(N32(ROMFS_HEADER_SIZE), N32(256), N32(80 + 28),
                         N32(512), N32(108 + 36), N32(1024)),
               TreeDirs, TreeFiles, N64(4096)),
       \* 13: a region that ends inside f3's data (1024 + 12 .. 1024 + 23)
       Archive(HeaderCur(N64(ROMFS_HEADER_SIZE), N64(256), TreeDirSize,
                         N64(512), TreeFileSize, N64(1024)),
               TreeDirs, TreeFiles, N64(1040)) >>

ArchiveIds == 1..Len(Archives)

(***************************************************************************)
(* The context and the heap.  A table pointer is 0 (NULL) or the index of  *)
(* a heap buffer; a buffer records which archive table was read into it,   *)
(* whether it is still allocated, and how often free() was called on it.   *)
(***************************************************************************)
NullPtr == 1 - 1

\* memset(ctx, 0, sizeof(RomFileSystemContext))
ZeroContext ==
    [nca_fs_ctx |-> FALSE, sha256_hash_info |-> FALSE, integrity_hash_info |-> FALSE,
     offset |-> ZERO64, size |-> ZERO64, header |-> PadHeader(<<>>),
     dir_table_size |-> ZERO64, dir_table |-> NullPtr,
     file_table_size |-> ZERO64, file_table |-> NullPtr,
     body_offset |-> ZERO64]

\* free(p): the buffer's bytes are gone with it.
Free(h, p) ==
    [h EXCEPT ![p] = [live |-> FALSE, frees |-> @.frees + 1, arch |-> NullPtr,
                      kind |-> "freed", size |-> ZERO64]]

\* malloc(size), filled afterwards from table `kind` of archive a.
Malloc(h, a, kind, size) ==
    Append(h, [live |-> TRUE, frees |-> 0, arch |-> a, kind |-> kind, size |-> size])

\* A faulty release that keeps the context's fields (no memset).
\* if (p) free(p)
FreeIfSet(h, p) == IF p # NullPtr THEN Free(h, p) ELSE h

romfsFreeContext_NoClear(c, h) ==
    [ctx |-> c, heap |-> FreeIfSet(FreeIfSet(h, c.dir_table), c.file_table),
     freed |-> {c.dir_table, c.file_table} \ {NullPtr}]

\* romfsFreeContext: free both tables when present, then zero the context.
romfsFreeContext(c, h) ==
    [ctx |-> ZeroContext, heap |-> FreeIfSet(FreeIfSet(h, c.dir_table), c.file_table),
     freed |-> {c.dir_table, c.file_table} \ {NullPtr}]

(***************************************************************************)
(* Entry resolution.  A view is a pointer into a table buffer: the buffer  *)
(* and the byte offset in it; NoEntry is the NULL result.                  *)
(***************************************************************************)
NoEntry == [buf |-> NullPtr, off |-> ZERO32]

View(p, o) == [buf |-> p, off |-> o]

\* A faulty bounds check whose sum is computed in 32 bits and wraps.
RecordFits_Sum32(o, recordSize, tableSize) ==
    ~Greater(AddWrap(o, N32(recordSize)), tableSize)

\* A faulty bounds check that leaves the record size out of the sum.
RecordFits_OffsetOnly(o, recordSize, tableSize) ==
    ~Greater(ZeroExtend(o, U64Limbs), tableSize)

\* (offset + sizeof(record)) > table_size is false: the u32 offset is
\* converted to size_t (64 bits) and the sum is compared with the u64 size.
RecordFits(o, recordSize, tableSize) ==
    ~Greater(AddWrap(ZeroExtend(o, U64Limbs), N64(recordSize)), tableSize)

romfsGetDirectoryEntry(c, dir_entry_offset) ==
    IF \/ c.dir_table = NullPtr
       \/ ~RecordFits(dir_entry_offset, SizeofDirectoryEntry, c.dir_table_size)
    THEN NoEntry
    ELSE View(c.dir_table, dir_entry_offset)

\* A faulty file resolver that checks against the directory table's size.
romfsGetFileEntry_DirSize(c, file_entry_offset) ==
    IF \/ c.file_table = NullPtr
       \/ ~RecordFits(file_entry_offset, SizeofFileEntry, c.dir_table_size)
    THEN NoEntry
    ELSE View(c.file_table, file_entry_offset)

romfsGetFileEntry(c, file_entry_offset) ==
    IF \/ c.file_table = NullPtr
       \/ ~RecordFits(file_entry_offset, SizeofFileEntry, c.file_table_size)
    THEN NoEntry
    ELSE View(c.file_table, file_entry_offset)

\* The entry a view points at: the record read into the buffer at that offset.
Deref(h, v) ==
    IF h[v.buf].kind = "dir" THEN Archives[h[v.buf].arch].dirs[v.off]
    ELSE Archives[h[v.buf].arch].files[v.off]

(***************************************************************************)
(* Header parsing and table loading (romfsInitializeContext).              *)
(***************************************************************************)
\* The layout named by the leading size field: the legacy u32 field is
\* tried first, then the current u64 field.
ParseHeader(hdr) ==
    IF OldField(hdr, 0) = N32(ROMFS_OLD_HEADER_SIZE) THEN "legacy"
    ELSE IF CurField(hdr, 0) = N64(ROMFS_HEADER_SIZE) THEN "current"
    ELSE "FormatError"

\* Field k of the header in the single 64-bit shape.
HeaderField(hdr, layout, k) ==
    IF layout = "legacy" THEN ZeroExtend(OldField(hdr, k), U64Limbs)
    ELSE CurField(hdr, k)

\* offset + length stays inside a region of `size` bytes (u64 arithmetic).
InRegion(offset, length, size) == ~Greater(AddWrap(offset, length), size)

\* The hash engine the context holds.
HashEngine(c) ==
    IF c.sha256_hash_info THEN "HierarchicalSha256"
    ELSE IF c.integrity_hash_info THEN "HierarchicalIntegrity"
    ELSE "none"

FailPoints ==
    {"none", "header_read", "dir_alloc", "dir_read", "file_alloc", "file_read"}

\* What an initialization returns: h is the heap before the call, hp after.
InitResult(ok, err, layout, c, h, hp, reads) ==
    [ok |-> ok, err |-> err, layout |-> layout, ctx |-> c, heap |-> hp,
     allocated |-> (Len(h) + 1)..Len(hp), reads |-> reads]

\* Every failure releases what the context holds before it returns.
InitFail(err, layout, c, h, hp, reads) ==
    The({ InitResult(FALSE, err, layout, r.ctx, h, r.heap, reads) :
          r \in {romfsFreeContext(c, hp)} })

\* The context once the region is known, and once the header is parsed.
InitRegion(ar) ==
    [ZeroContext EXCEPT !.nca_fs_ctx = TRUE, !.offset = ar.offset, !.size = ar.size]

InitHeader(ar, layout) ==
    [InitRegion(ar) EXCEPT !.header = ar.header,
                           !.sha256_hash_info = (layout = "legacy"),
                           !.integrity_hash_info = (layout = "current"),
                           !.dir_table_size = HeaderField(ar.header, layout, 4),
                           !.file_table_size = HeaderField(ar.header, layout, 8),
                           !.body_offset = HeaderField(ar.header, layout, 9)]

\* The file entry table: none when its size is zero, else allocated and read.
LoadFileTable(h, a, failAt, ar, layout, c, h1) ==
    IF IsZero(c.file_table_size)
    THEN InitResult(TRUE, "none", layout, c, h, h1, <<"header", "dir">>)
    ELSE IF ~InRegion(HeaderField(ar.header, layout, 7), c.file_table_size, ar.size)
    THEN InitFail("BoundsError", layout, c, h, h1, <<"header", "dir">>)
    ELSE IF failAt = "file_alloc"
    THEN InitFail("AllocError", layout, c, h, h1, <<"header", "dir">>)
    ELSE The({ IF failAt = "file_read"
               THEN InitFail("IOError", layout, [c EXCEPT !.file_table = Len(h2)],
                             h, h2, <<"header", "dir", "file">>)
               ELSE InitResult(TRUE, "none", layout,
                               [c EXCEPT !.file_table = Len(h2)],
                               h, h2, <<"header", "dir", "file">>) :
               h2 \in {Malloc(h1, a, "file", c.file_table_size)} })

\* The directory entry table: its size must be nonzero.
LoadDirTable(h, a, failAt, ar, layout, c) ==
    IF IsZero(c.dir_table_size)
    THEN InitFail("FormatError", layout, c, h, h, <<"header">>)
    ELSE IF ~InRegion(HeaderField(ar.header, layout, 3), c.dir_table_size, ar.size)
    THEN InitFail("BoundsError", layout, c, h, h, <<"header">>)
    ELSE IF failAt = "dir_alloc"
    THEN InitFail("AllocError", layout, c, h, h, <<"header">>)
    ELSE The({ IF failAt = "dir_read"
               THEN InitFail("IOError", layout, [c EXCEPT !.dir_table = Len(h1)],
                             h, h1, <<"header", "dir">>)
               ELSE LoadFileTable(h, a, failAt, ar, layout,
                                  [c EXCEPT !.dir_table = Len(h1)], h1) :
               h1 \in {Malloc(h, a, "dir", c.dir_table_size)} })

\* Initialize from archive a; failAt names the allocation or delegated read
\* that fails, if any.
romfsInitializeContext(h, a, failAt) ==
    The({ IF failAt = "header_read"
          THEN InitFail("IOError", "unread", InitRegion(ar), h, h, <<"header">>)
          ELSE IF layout = "FormatError"
          THEN InitFail("FormatError", layout, InitRegion(ar), h, h, <<"header">>)
          ELSE The({ LoadDirTable(h, a, failAt, ar, layout, c) :
                     c \in {InitHeader(ar, layout)} }) :
          ar \in {Archives[a]}, layout \in {ParseHeader(Archives[a].header)} })

(***************************************************************************)
(* Payload reads.                                                          *)
(***************************************************************************)
\* Read read_size bytes at a RomFS-relative offset: region bounds check, then
\* one verified read of the section reader at region offset + offset.
romfsReadFileSystemData(c, read_size, offset, readerOk) ==
    IF ~InRegion(offset, read_size, c.size)
    THEN [ok |-> FALSE, err |-> "BoundsError", reads |-> <<>>, length |-> ZERO64]
    ELSE The({ IF readerOk
               THEN [ok |-> TRUE, err |-> "none", reads |-> <<rd>>, length |-> read_size]
               ELSE [ok |-> FALSE, err |-> "IOError", reads |-> <<rd>>, length |-> ZERO64] :
               rd \in {[position |-> AddWrap(c.offset, offset), length |-> read_size,
                        engine |-> HashEngine(c)]} })

\* A faulty payload read that leaves the body offset out of the position.
romfsReadFileEntryData_NoBody(c, file_entry, read_size, offset, readerOk) ==
    IF Greater(AddWrap(offset, read_size), file_entry.size)
    THEN [ok |-> FALSE, err |-> "RangeError", reads |-> <<>>, length |-> ZERO64]
    ELSE romfsReadFileSystemData(c, read_size, AddWrap(file_entry.offset, offset),
                                 readerOk)

\* Read read_size bytes at `offset` inside the data of a file entry.  The
\* range check adds the two u64 arguments as C does.
romfsReadFileEntryData(c, file_entry, read_size, offset, readerOk) ==
    IF Greater(AddWrap(offset, read_size), file_entry.size)
    THEN [ok |-> FALSE, err |-> "RangeError", reads |-> <<>>, length |-> ZERO64]
    ELSE romfsReadFileSystemData(c, read_size,
             AddWrap(AddWrap(c.body_offset, file_entry.offset), offset), readerOk)

(***************************************************************************)
(* Size accounting.  A walk returns its status ("ok", "error" when an      *)
(* offset fails resolution, "diverge" when MaxVisits entries were visited  *)
(* without reaching the end), the u64 sum, and the entries it visited.     *)
(***************************************************************************)
MaxVisits == 12

WalkEnd(fuel) ==
    [st |-> "ok", size |-> ZERO64, dirs |-> <<>>, files |-> <<>>, fuel |-> fuel]

WalkStop(st) ==
    [st |-> st, size |-> ZERO64, dirs |-> <<>>, files |-> <<>>, fuel |-> 0]

WalkJoin(a, b) ==
    [st |-> "ok", size |-> AddWrap(a.size, b.size), dirs |-> a.dirs \o b.dirs,
     files |-> a.files \o b.files, fuel |-> b.fuel]

RECURSIVE FileChainSize(_, _, _, _)
RECURSIVE DirChainSize(_, _, _, _)
RECURSIVE DirectoryDataSize(_, _, _, _)

\* The walk of one file entry, and of one directory entry before its children.
WalkFile(off, e, fuel) ==
    [st |-> "ok", size |-> e.size, dirs |-> <<>>, files |-> <<off>>, fuel |-> fuel]

\* first, then (when first succeeded) the walk `more` of what follows it.
WalkThen(first, more) ==
    IF more.st # "ok" THEN more ELSE WalkJoin(first, more)

\* The files on a next_offset chain, up to the sentinel.
FileChainSize(c, h, cur_file_offset, fuel) ==
    IF cur_file_offset = ROMFS_VOID_ENTRY THEN WalkEnd(fuel)
    ELSE IF fuel = 0 THEN WalkStop("diverge")
    ELSE IF romfsGetFileEntry(c, cur_file_offset) = NoEntry THEN WalkStop("error")
    ELSE The({ The({ WalkThen(WalkFile(cur_file_offset, e, fuel), rest) :
                     rest \in {FileChainSize(c, h, e.next_offset, fuel - 1)} }) :
               e \in {Deref(h, romfsGetFileEntry(c, cur_file_offset))} })

\* A directory: its files, then each child directory in turn.
DirectoryDataSize(c, h, dir_entry_offset, fuel) ==
    IF fuel = 0 THEN WalkStop("diverge")
    ELSE IF romfsGetDirectoryEntry(c, dir_entry_offset) = NoEntry
    THEN WalkStop("error")
    ELSE The({ The({ IF fs.st # "ok" THEN fs
                     ELSE The({ WalkThen([fs EXCEPT !.dirs = <<dir_entry_offset>>], ds) :
                                ds \in {DirChainSize(c, h, e.directory_offset, fs.fuel)} }) :
                     fs \in {FileChainSize(c, h, e.file_offset, fuel - 1)} }) :
               e \in {Deref(h, romfsGetDirectoryEntry(c, dir_entry_offset))} })

\* The directories on a next_offset chain, each with its whole subtree.
DirChainSize(c, h, cur_dir_offset, fuel) ==
    IF cur_dir_offset = ROMFS_VOID_ENTRY THEN WalkEnd(fuel)
    ELSE IF romfsGetDirectoryEntry(c, cur_dir_offset) = NoEntry THEN WalkStop("error")
    ELSE The({ The({ IF sub.st # "ok" THEN sub
                     ELSE The({ WalkThen(sub, rest) :
                                rest \in {DirChainSize(c, h, e.next_offset, sub.fuel)} }) :
                     sub \in {DirectoryDataSize(c, h, cur_dir_offset, fuel)} }) :
               e \in {Deref(h, romfsGetDirectoryEntry(c, cur_dir_offset))} })

\* out_size is written only on success.
romfsGetDirectoryDataSize(c, h, dir_entry_offset) ==
    The({ [dir |-> dir_entry_offset, st |-> w.st, ok |-> (w.st = "ok"),
           written |-> (w.st = "ok"), out_size |-> w.size, dirs |-> w.dirs, files |-> w.files] :
          w \in {DirectoryDataSize(c, h, dir_entry_offset, MaxVisits)} })

\* The root directory is the entry at offset 0.
romfsGetTotalDataSize(c, h) == romfsGetDirectoryDataSize(c, h, ZERO32)

(***************************************************************************)
(* The state machine: one context driven by its caller.                    *)
(***************************************************************************)
\* How many buffers the heap may ever hand out.
MaxAllocs == 4

\* Offsets a caller may pass to the resolvers: entry starts, offsets whose
\* record crosses the end of a table, and offsets near 2^32.
SampleOffsets ==
    {N32(0), N32(24), N32(52), N32(80), N32(84), N32(85), N32(108), N32(112),
     N32(113), N32(36), N32(72), N32(200),
     U32(TopLimb, TopLimb - 31), U32(TopLimb, TopLimb - 23), ROMFS_VOID_ENTRY}

\* The (offset, read_size) pairs a caller may pass to a payload read: inside
\* a file, past its end, and pairs whose sum passes 2^64.
MaxU64 == U64(TopLimb, TopLimb, TopLimb, TopLimb)

SampleRanges ==
    {<<N64(0), N64(5)>>, <<N64(1), N64(4)>>, <<N64(0), N64(13)>>,
     <<N64(5), N64(13)>>, <<N64(0), MaxU64>>, <<MaxU64, N64(1)>>,
     <<U64(TopLimb, TopLimb, TopLimb, TopLimb - 2), N64(5)>>, <<N64(1), MaxU64>>}

Populated(c) == c.dir_table # NullPtr \/ c.file_table # NullPtr

Init ==
    /\ ctx = ZeroContext
    /\ heap = <<>>
    /\ phase = "fresh"
    /\ last = [op |-> "none"]

Initialize ==
    /\ ~Populated(ctx)
    /\ Len(heap) + 2 <= MaxAllocs
    /\ \E a \in ArchiveIds, failAt \in FailPoints :
          \E r \in {romfsInitializeContext(heap, a, failAt)} :
              /\ ctx' = r.ctx
              /\ heap' = r.heap
              /\ phase' = IF r.ok THEN "populated" ELSE phase
              /\ last' = [op |-> "init", arch |-> a, ok |-> r.ok, err |-> r.err,
                          layout |-> r.layout, allocated |-> r.allocated,
                          reads |-> r.reads]

Release ==
    \E r \in {romfsFreeContext(ctx, heap)} :
        /\ ctx' = r.ctx
        /\ heap' = r.heap
        /\ phase' = "released"
        /\ last' = [op |-> "free", freed |-> r.freed, before |-> ctx,
                    again |-> (phase = "released")]

ResolveDirectory ==
    /\ \E o \in SampleOffsets :
          last' = [op |-> "getdir", off |-> o, view |-> romfsGetDirectoryEntry(ctx, o)]
    /\ UNCHANGED <<ctx, heap, phase>>

ResolveFile ==
    /\ \E o \in SampleOffsets :
          last' = [op |-> "getfile", off |-> o, view |-> romfsGetFileEntry(ctx, o)]
    /\ UNCHANGED <<ctx, heap, phase>>

\* A payload read through a file entry the caller has resolved before.
ReadFileEntryData ==
    /\ ctx.file_table # NullPtr
    /\ \E fo \in DOMAIN Archives[heap[ctx.file_table].arch].files,
          rng \in SampleRanges, readerOk \in BOOLEAN :
          \E v \in {romfsGetFileEntry(ctx, fo)} :
              /\ v # NoEntry
              /\ \E r \in {romfsReadFileEntryData(ctx, Deref(heap, v), rng[2],
                                                  rng[1], readerOk)} :
                     last' = [op |-> "read", entry |-> Deref(heap, v),
                              read_size |-> rng[2], offset |-> rng[1],
                              readerOk |-> readerOk, ok |-> r.ok, err |-> r.err,
                              reads |-> r.reads, length |-> r.length]
    /\ UNCHANGED <<ctx, heap, phase>>

\* Entry starts and two offsets that do not resolve.
SampleDirs == {N32(0), N32(24), N32(52), N32(80), N32(200), ROMFS_VOID_ENTRY}

\* The caller passes the offset of a directory entry, or one that fails
\* resolution; bytes between entries are never taken for an entry.
GetDirectoryDataSize ==
    /\ \E d \in SampleDirs :
          \E v \in {romfsGetDirectoryEntry(ctx, d)} :
              /\ v # NoEntry => d \in DOMAIN Archives[heap[v.buf].arch].dirs
              /\ \E r \in {romfsGetDirectoryDataSize(ctx, heap, d)} :
                 last' = [op |-> "dirsize", dir |-> r.dir, st |-> r.st, ok |-> r.ok,
                       written |-> r.written, out_size |-> r.out_size,
                       dirs |-> r.dirs, files |-> r.files]
    /\ UNCHANGED <<ctx, heap, phase>>

GetTotalDataSize ==
    /\ \E r \in {romfsGetTotalDataSize(ctx, heap)} :
           last' = [op |-> "totalsize", dir |-> r.dir, st |-> r.st, ok |-> r.ok,
                    written |-> r.written, out_size |-> r.out_size,
                    dirs |-> r.dirs, files |-> r.files]
    /\ UNCHANGED <<ctx, heap, phase>>

Next ==
    \/ Initialize
    \/ Release
    \/ ResolveDirectory
    \/ ResolveFile
    \/ ReadFileEntryData
    \/ GetDirectoryDataSize
    \/ GetTotalDataSize

Spec == Init /\ [][Next]_vars

(***************************************************************************)
(* Exact (unbounded) arithmetic and the entry graph, for stating the       *)
(* properties independently of the operations above.                       *)
(***************************************************************************)
\* Wide enough for any sum of a few u64 values.
Wide(x) == ZeroExtend(x, U64Limbs + U32Limbs)

\* The mathematical sum a + b.
Sum(a, b) == AddWrap(Wide(a), Wide(b))

\* The tables the context holds, as the entries at their offsets.
DirsOf(c, h) ==
    IF c.dir_table = NullPtr THEN [o \in {} |-> 0] ELSE Archives[h[c.dir_table].arch].dirs

FilesOf(c, h) ==
    IF c.file_table = NullPtr THEN [o \in {} |-> 0] ELSE Archives[h[c.file_table].arch].files

\* Offset o starts an entry whose fixed record lies inside the table.
DirAt(c, h, o) ==
    /\ o \in DOMAIN DirsOf(c, h)
    /\ LessEq(Sum(o, N32(SizeofDirectoryEntry)), c.dir_table_size)

FileAt(c, h, o) ==
    /\ o \in DOMAIN FilesOf(c, h)
    /\ LessEq(Sum(o, N32(SizeofFileEntry)), c.file_table_size)

\* The non-sentinel links leaving the directories of S that resolve.
DirLinksFrom(c, h, S) ==
    ({DirsOf(c, h)[x].next_offset : x \in {y \in S : DirAt(c, h, y)}}
     \cup {DirsOf(c, h)[x].directory_offset : x \in {y \in S : DirAt(c, h, y)}})
    \ {ROMFS_VOID_ENTRY}

\* The least set that holds S and the links leaving its directories.
RECURSIVE DirLinkClosure(_, _, _)
DirLinkClosure(c, h, S) ==
    The({ IF T = S THEN S ELSE DirLinkClosure(c, h, T) :
          T \in {S \cup DirLinksFrom(c, h, S)} })

\* The offsets met on the directory chains below directory d (d excluded).
SubtreeLinks(c, h, d) ==
    IF DirAt(c, h, d)
    THEN DirLinkClosure(c, h, {DirsOf(c, h)[d].directory_offset} \ {ROMFS_VOID_ENTRY})
    ELSE {}

\* The directories of d's subtree that resolve.
SubtreeDirs(c, h, d) == {x \in {d} \cup SubtreeLinks(c, h, d) : DirAt(c, h, x)}

FileLinksFrom(c, h, S) ==
    {FilesOf(c, h)[x].next_offset : x \in {y \in S : FileAt(c, h, y)}}
    \ {ROMFS_VOID_ENTRY}

RECURSIVE FileLinkClosure(_, _, _)
FileLinkClosure(c, h, S) ==
    The({ IF T = S THEN S ELSE FileLinkClosure(c, h, T) :
          T \in {S \cup FileLinksFrom(c, h, S)} })

\* The offsets met on the file chains of d's subtree.
SubtreeFileLinks(c, h, d) ==
    FileLinkClosure(c, h, {DirsOf(c, h)[x].file_offset : x \in SubtreeDirs(c, h, d)}
                            \ {ROMFS_VOID_ENTRY})

\* Some non-sentinel offset on a chain of d's subtree fails resolution.
BadLink(c, h, d) ==
    \/ \E o \in SubtreeLinks(c, h, d) : ~DirAt(c, h, o)
    \/ \E o \in SubtreeFileLinks(c, h, d) : ~FileAt(c, h, o)

\* A well-formed, acyclic subtree: every link resolves, d is not below itself
\* and every entry is the target of exactly one link.
WellFormed(c, h, d) ==
    /\ DirAt(c, h, d)
    /\ ~BadLink(c, h, d)
    /\ d \notin SubtreeLinks(c, h, d)
    /\ \A o \in SubtreeLinks(c, h, d) :
          Cardinality({x \in SubtreeDirs(c, h, d) : DirsOf(c, h)[x].directory_offset = o})
          + Cardinality({x \in SubtreeLinks(c, h, d) : DirsOf(c, h)[x].next_offset = o}) = 1
    /\ \A o \in SubtreeFileLinks(c, h, d) :
          Cardinality({x \in SubtreeDirs(c, h, d) : DirsOf(c, h)[x].file_offset = o})
          + Cardinality({x \in SubtreeFileLinks(c, h, d) :
                           FilesOf(c, h)[x].next_offset = o}) = 1

\* The mathematical sum of the sizes of the files at the offsets S.
RECURSIVE SumSizes(_, _, _)
SumSizes(c, h, S) ==
    IF S = {} THEN Wide(ZERO64)
    ELSE The({ Sum(FilesOf(c, h)[f].size, SumSizes(c, h, S \ {f})) :
               f \in {CHOOSE x \in S : TRUE} })

\* The elements of a sequence, and whether each occurs once.
Range(q) == {q[i] : i \in 1..Len(q)}

NoRepeat(q) == Cardinality(Range(q)) = Len(q)

IsResolve == last.op \in {"getdir", "getfile"}

IsSize == last.op \in {"dirsize", "totalsize"}

\* The table and record size the last resolver call was checked against.
LastTableSize == IF last.op = "getdir" THEN ctx.dir_table_size ELSE ctx.file_table_size

LastRecordSize ==
    IF last.op = "getdir" THEN N32(SizeofDirectoryEntry) ELSE N32(SizeofFileEntry)

LastTable == IF last.op = "getdir" THEN ctx.dir_table ELSE ctx.file_table

(***************************************************************************)
(* C1: a resolver returns "no entry" whenever offset + record size (24 for *)
(* a directory entry, 32 for a file entry) exceeds the table size, so      *)
(* every view it returns has its whole fixed record inside the loaded,     *)
(* still allocated table buffer.                                           *)
(***************************************************************************)
C1_RecordInsideTable ==
    IsResolve =>
        /\ Greater(Sum(last.off, LastRecordSize), LastTableSize) => last.view = NoEntry
        /\ last.view # NoEntry =>
              /\ last.view = View(LastTable, last.off)
              /\ heap[last.view.buf].live
              /\ LessEq(Sum(last.view.off, LastRecordSize), heap[last.view.buf].size)

\* A loaded table and an offset whose record crosses its end.
C1_Witness ==
    /\ last.op = "getdir"
    /\ ctx.dir_table # NullPtr
    /\ LessEq(last.off, ctx.dir_table_size)
    /\ Greater(Sum(last.off, LastRecordSize), ctx.dir_table_size)
    /\ last.view = NoEntry

(***************************************************************************)
(* C2 as stated: the sentinel 0xFFFFFFFF resolves to "no entry" in both    *)
(* resolvers for any nonzero table size.                                   *)
(***************************************************************************)
C2_SentinelAnyTableSize ==
    (IsResolve /\ last.off = ROMFS_VOID_ENTRY /\ ~IsZero(LastTableSize)) =>
        last.view = NoEntry

(***************************************************************************)
(* C2 amended: the sentinel resolves to "no entry" for any nonzero table   *)
(* size below 0xFFFFFFFF + record size (2^32 + 23 for directories,         *)
(* 2^32 + 31 for files); the sum is formed in 64 bits and does not wrap.   *)
(***************************************************************************)
C2_SentinelBelowLimit ==
    (/\ IsResolve
     /\ last.off = ROMFS_VOID_ENTRY
     /\ ~IsZero(LastTableSize)
     /\ Less(LastTableSize, Sum(ROMFS_VOID_ENTRY, LastRecordSize))) =>
        last.view = NoEntry

\* The sentinel against a loaded directory table of 2^32 + 22 bytes.
C2_Witness ==
    /\ last.op = "getdir"
    /\ last.off = ROMFS_VOID_ENTRY
    /\ ctx.dir_table # NullPtr
    /\ ctx.dir_table_size = U64(0, 1, 0, 22)
    /\ last.view = NoEntry

(***************************************************************************)
(* C3: release is idempotent.  A release that follows a release frees      *)
(* nothing and leaves the context as it was, and over any sequence of      *)
(* initialize and release calls no buffer is freed more than once.         *)
(***************************************************************************)
C3_ReleaseIdempotent ==
    /\ \A b \in DOMAIN heap : heap[b].frees <= 1
    /\ (last.op = "free" /\ last.again) => (last.freed = {} /\ ctx = last.before)

\* A second release of a context whose buffers the first release freed.
C3_Witness ==
    /\ last.op = "free"
    /\ last.again
    /\ \E b \in DOMAIN heap : heap[b].frees = 1

(***************************************************************************)
(* C9: when initialization fails at any step, the context owns neither     *)
(* table buffer and every buffer allocated by the failed call has been     *)
(* released.                                                               *)
(***************************************************************************)
C9_FailedInitUnpopulated ==
    (last.op = "init" /\ ~last.ok) =>
        /\ ctx.dir_table = NullPtr
        /\ ctx.file_table = NullPtr
        /\ \A b \in last.allocated : ~heap[b].live /\ heap[b].frees = 1

\* The read of the file table fails after both buffers were allocated.
C9_Witness ==
    /\ last.op = "init"
    /\ ~last.ok
    /\ last.err = "IOError"
    /\ Cardinality(last.allocated) = 2

(***************************************************************************)
(* C10: once the context has been released, and until the next successful  *)
(* initialization, both table pointers are null, both table sizes are zero *)
(* and both resolvers return "no entry" for every offset; a resolver never *)
(* returns a view into a released buffer.                                  *)
(***************************************************************************)
C10_NoViewAfterRelease ==
    /\ phase = "released" =>
          /\ ctx.dir_table = NullPtr /\ ctx.file_table = NullPtr
          /\ IsZero(ctx.dir_table_size) /\ IsZero(ctx.file_table_size)
          /\ \A o \in SampleOffsets :
                /\ romfsGetDirectoryEntry(ctx, o) = NoEntry
                /\ romfsGetFileEntry(ctx, o) = NoEntry
          /\ IsResolve => last.view = NoEntry
    /\ (IsResolve /\ last.view # NoEntry) => heap[last.view.buf].live

\* A resolver called on a context whose tables were loaded and released.
C10_Witness ==
    /\ phase = "released"
    /\ last.op = "getfile"
    /\ last.off = ZERO32
    /\ \E b \in DOMAIN heap : heap[b].kind = "freed"

\* The header bytes at a byte offset, read as a little-endian u32 or u64.
RawU32(hdr, at) == <<hdr[at \div 2 + 1], hdr[at \div 2 + 2]>>

RawU64(hdr, at) ==
    <<hdr[at \div 2 + 1], hdr[at \div 2 + 2], hdr[at \div 2 + 3], hdr[at \div 2 + 4]>>

\* The size field says legacy (0x28 in its first four bytes) or current
\* (0x50 in its first eight bytes).
SaysLegacy(hdr) == RawU32(hdr, 0) = N32(ROMFS_OLD_HEADER_SIZE)

SaysCurrent(hdr) == RawU64(hdr, 0) = N64(ROMFS_HEADER_SIZE)

\* The directory table size, file table size and body offset of a header
\* under each layout, at their byte offsets in the two structs.
LegacyInfo(hdr) ==
    <<ZeroExtend(RawU32(hdr, 16), U64Limbs), ZeroExtend(RawU32(hdr, 32), U64Limbs),
      ZeroExtend(RawU32(hdr, 36), U64Limbs)>>

CurrentInfo(hdr) == <<RawU64(hdr, 32), RawU64(hdr, 64), RawU64(hdr, 72)>>

CtxInfo(c) == <<c.dir_table_size, c.file_table_size, c.body_offset>>

(***************************************************************************)
(* C4: the layout is chosen by the leading size field alone.  A header     *)
(* whose size field is 0x28 is parsed as legacy and only as legacy, one    *)
(* whose size field is 0x50 as current and only as current, and any other  *)
(* value of the size field yields a format error.                          *)
(***************************************************************************)
C4_LayoutBySizeField ==
    (last.op = "init" /\ last.layout # "unread") =>
        \A hdr \in {Archives[last.arch].header} :
            /\ last.layout = "legacy" <=> SaysLegacy(hdr)
            /\ last.layout = "current" <=> SaysCurrent(hdr)
            /\ last.layout = "FormatError" <=> (~SaysLegacy(hdr) /\ ~SaysCurrent(hdr))
            /\ last.layout = "FormatError" => (~last.ok /\ last.err = "FormatError")
            /\ last.err = "FormatError" =>
                  \/ last.layout = "FormatError"
                  \/ SaysLegacy(hdr) /\ IsZero(LegacyInfo(hdr)[1])
                  \/ SaysCurrent(hdr) /\ IsZero(CurrentInfo(hdr)[1])
            /\ (last.ok /\ SaysLegacy(hdr)) =>
                  /\ CtxInfo(ctx) = LegacyInfo(hdr)
                  /\ ctx.sha256_hash_info /\ ~ctx.integrity_hash_info
            /\ (last.ok /\ SaysCurrent(hdr)) =>
                  /\ CtxInfo(ctx) = CurrentInfo(hdr)
                  /\ ctx.integrity_hash_info /\ ~ctx.sha256_hash_info

\* A legacy header parsed and its tables loaded.
C4_Witness ==
    /\ last.op = "init"
    /\ last.ok
    /\ last.layout = "legacy"
    /\ SaysLegacy(ctx.header)

\* The body offset of the context's header under its layout.
RawBody(c) == IF SaysLegacy(c.header) THEN LegacyInfo(c.header)[3] ELSE CurrentInfo(c.header)[3]

\* The engine of the context's layout.
LayoutEngine(c) ==
    IF SaysLegacy(c.header) THEN "HierarchicalSha256" ELSE "HierarchicalIntegrity"

\* The one verified read a payload read of the last request has to issue.
ExpectedRead ==
    [position |-> Sum(Sum(ctx.offset, RawBody(ctx)), Sum(last.entry.offset, last.offset)),
     length |-> last.read_size, engine |-> LayoutEngine(ctx)]

WideRead(rd) == [position |-> Wide(rd.position), length |-> rd.length, engine |-> rd.engine]

C6_ReadInRangeSucceeds ==
    (last.op = "read" /\ LessEq(Sum(last.offset, last.read_size), last.entry.size)) =>
        /\ last.ok
        /\ last.length = last.read_size
        /\ Len(last.reads) = 1
        /\ WideRead(last.reads[1]) = ExpectedRead

(***************************************************************************)
(* C6 amended: a payload read with local_offset + length <= S whose range  *)
(* body_offset + entry.offset + local_offset + length lies inside the      *)
(* RomFS region issues exactly one verified read of `length` bytes at      *)
(* region_offset + body_offset + entry.offset + local_offset with the hash *)
(* engine of the header's layout; it succeeds and returns exactly `length` *)
(* bytes when that delegated read succeeds and fails with IOError when it  *)
(* fails.                                                                  *)
(***************************************************************************)
C6_ReadInRangeDelegates ==
    (/\ last.op = "read"
     /\ LessEq(Sum(last.offset, last.read_size), last.entry.size)
     /\ LessEq(Sum(Sum(RawBody(ctx), last.entry.offset),
                   Sum(last.offset, last.read_size)), ctx.size)) =>
        /\ Len(last.reads) = 1
        /\ WideRead(last.reads[1]) = ExpectedRead
        /\ last.ok <=> last.readerOk
        /\ last.ok => last.length = last.read_size
        /\ ~last.ok => last.err = "IOError"

\* Four bytes read at offset 1 of a five byte file of a legacy archive.
C6_Witness ==
    /\ last.op = "read"
    /\ SaysLegacy(ctx.header)
    /\ last.entry.size = N64(5)
    /\ last.offset = N64(1)
    /\ last.read_size = N64(4)
    /\ last.ok
    /\ last.reads[1].position = N64(512 + 1024 + 1)

(***************************************************************************)
(* C7: for a well-formed, acyclic entry graph the size of directory d ends *)
(* and is exactly the sum of the sizes of the files of d's subtree, every  *)
(* directory and file of the subtree visited exactly once; the total size  *)
(* is that sum for the root at offset 0, and a directory without files and *)
(* subdirectories yields 0.                                                *)
(***************************************************************************)
C7_SubtreeSum ==
    (IsSize /\ WellFormed(ctx, heap, last.dir)) =>
        /\ last.st = "ok" /\ last.ok /\ last.written
        /\ Wide(last.out_size) = SumSizes(ctx, heap, SubtreeFileLinks(ctx, heap, last.dir))
        /\ NoRepeat(last.dirs) /\ Range(last.dirs) = SubtreeDirs(ctx, heap, last.dir)
        /\ NoRepeat(last.files) /\ Range(last.files) = SubtreeFileLinks(ctx, heap, last.dir)
        /\ last.op = "totalsize" => last.dir = ZERO32
        /\ (/\ DirsOf(ctx, heap)[last.dir].file_offset = ROMFS_VOID_ENTRY
            /\ DirsOf(ctx, heap)[last.dir].directory_offset = ROMFS_VOID_ENTRY) =>
              last.out_size = ZERO64

\* The total of the four files (5 + 7 + 11 + 13) under the four directories.
C7_Witness ==
    /\ last.op = "totalsize"
    /\ WellFormed(ctx, heap, last.dir)
    /\ Len(last.dirs) = 4
    /\ Len(last.files) = 4
    /\ last.out_size = N64(36)

(***************************************************************************)
(* C8: when a non-sentinel offset on a child or sibling chain of the walk  *)
(* fails resolution, size accounting fails and writes no sum.              *)
(***************************************************************************)
C8_NoPartialSum ==
    (IsSize /\ BadLink(ctx, heap, last.dir)) => (~last.ok /\ ~last.written)

\* The total size of an archive whose directory table is cut short.
C8_Witness ==
    /\ last.op = "totalsize"
    /\ \E o \in SubtreeLinks(ctx, heap, last.dir) : ~DirAt(ctx, heap, o)
    /\ last.st = "error"
    /\ ~last.written

====
